---- MODULE Spec2Model ----
(***************************************************************************)
(* Model of the Sampler instrument of src/Tone/component/filter/           *)
(* FeedbackCombFilter.ts (lines 229-491): nearest-sample resolution        *)
(* (_findClosest), the per-key collections of active buffer sources        *)
(* (_activeSources), and the trigger / release / dispose operations.       *)
(*                                                                         *)
(* Pitches are the MIDI numbers produced by FrequencyClass.toMidi() at     *)
(* lines 331 and 377; times are the seconds produced by toSeconds().       *)
(* _activeSources is a JavaScript Map: activeSources holds its entries and  *)
(* keyOrder its keys in the order of insertion, the order forEach walks.    *)
(* A JavaScript call runs to completion, so each public method is one      *)
(* action; the onended callback of a source is an action of its own.       *)
(*                                                                         *)
(* The same file holds the audio worklet of FeedbackCombFilter (lines      *)
(* 102-145); the variable comb is the state of one processor: its delay    *)
(* buffer, the frame counter of the audio thread and the blocks it has     *)
(* taken and produced.                                                     *)
(***************************************************************************)
EXTENDS Integers, Sequences, FiniteSets, TLC

VARIABLES buffers, activeSources, keyOrder, sources, release, wasDisposed, lastCall, comb

vars == <<buffers, activeSources, keyOrder, sources, release, wasDisposed, lastCall, comb>>

(* ------------------------------ bounds --------------------------------- *)
\* sources created in one run, sources created in a run of SpecReleaseAll,
\* and the length of an array argument
MaxVoices == 2
MaxVoicesAll == 3
MaxLen == 2
\* the comb filter: frames per second (the length of the delay buffer),
\* frames per block, blocks per run, and the step 1 / DelayTimeDen of the
\* delay time
sampleRate == 3
BlockSize == 2
MaxBlocks == 4
DelayTimeDen == 4
\* blocks per run of SpecCombStereo
MaxStereoBlocks == 2

(* --------------------------- program constants ------------------------- *)
MAX_INTERVAL == 96

(* ------------------------------ inputs --------------------------------- *)
\* requested pitches; with the sample at 60 they are at distance 0, 2, 95, 96
Notes == {60, 62, 155, 156}
\* the stored sample keys of Spec
MainSamples == {60}
\* the stored sample keys SpecResolve starts from: an empty store, single
\* samples at distance 95 / 96 / 97 below and 95 / 96 above the requested
\* pitches, a tie at distance 2 and a nearer sample above
SampleSets == {{}, {60}, {59}, {60, 64}, {60, 63, 67}, {251}}
\* the pitches requested in SpecPool (156 does not resolve) and in
\* SpecReleaseAll (three keys that all resolve)
PoolNotes == {60, 62, 156}
AllNotes == {60, 62, 155}
Times == {0, 1}
\* SpecPool and SpecReleaseAll attack at time 0 and release later
ReleaseTimes == {1, 2}
Durations == {1, 2}
ReleaseValues == {1, 2}
\* the keys add() is called with in Spec: the key the store starts with and
\* a key that makes a tie with it for pitch 62
AddNotes == {60, 64}

SeqsUpTo(S, lo, hi) == UNION {[1..n -> S] : n \in lo..hi}

\* a scalar argument or an array argument (Array.isArray distinguishes them)
Scalar(x) == [arr |-> FALSE, v |-> <<x>>]
Array(s) == [arr |-> TRUE, v |-> s]
NoteArgsOver(S) == {Scalar(n) : n \in S} \cup {Array(s) : s \in SeqsUpTo(S, 0, MaxLen)}
NoteArgs == NoteArgsOver(Notes)
DurArgs == {Scalar(d) : d \in Durations} \cup {Array(s) : s \in SeqsUpTo(Durations, 1, MaxLen)}

Abs(x) == IF x < 0 THEN -x ELSE x

(* ----------------------------- _findClosest ---------------------------- *)
\* the radii the while loop visits before it gives up: 0 .. MAX_INTERVAL - 1
Radii == 0..(MAX_INTERVAL - 1)

RadiiInclusive == 0..MAX_INTERVAL

\* the loop returns at the first radius where has(midi + interval) or
\* has(midi - interval) holds, testing midi + interval first
SearchWithin(bufs, midi, radii) ==
    LET hits == {i \in radii : (midi + i) \in bufs \/ (midi - i) \in bufs} IN
    IF hits = {} THEN [ok |-> FALSE, interval |-> 0]
    ELSE LET interval == CHOOSE i \in hits : \A j \in hits : i <= j
         IN IF (midi + interval) \in bufs THEN [ok |-> TRUE, interval |-> -interval]
            ELSE [ok |-> TRUE, interval |-> interval]

\* variants of the search: the key below tested first; radius 96 included
SearchBelowFirst(bufs, midi, radii) ==
    LET hits == {i \in radii : (midi + i) \in bufs \/ (midi - i) \in bufs} IN
    IF hits = {} THEN [ok |-> FALSE, interval |-> 0]
    ELSE LET interval == CHOOSE i \in hits : \A j \in hits : i <= j
         IN IF (midi - interval) \in bufs THEN [ok |-> TRUE, interval |-> interval]
            ELSE [ok |-> TRUE, interval |-> -interval]

\* variant of the search: the signs of the two returns exchanged
SearchSignsExchanged(bufs, midi, radii) ==
    LET hits == {i \in radii : (midi + i) \in bufs \/ (midi - i) \in bufs} IN
    IF hits = {} THEN [ok |-> FALSE, interval |-> 0]
    ELSE LET interval == CHOOSE i \in hits : \A j \in hits : i <= j
         IN IF (midi + interval) \in bufs THEN [ok |-> TRUE, interval |-> interval]
            ELSE [ok |-> TRUE, interval |-> -interval]

FindClosestSignsExchanged(bufs, midi) == SearchSignsExchanged(bufs, midi, Radii)

FindClosestBelowFirst(bufs, midi) == SearchBelowFirst(bufs, midi, Radii)

FindClosestInclusive(bufs, midi) == SearchWithin(bufs, midi, RadiiInclusive)

FindClosest(bufs, midi) == SearchWithin(bufs, midi, Radii)

(* ------------------------- sources and the pool ------------------------ *)
NoError == [kind |-> "none", note |-> 0]
NoBuffer(midi) == [kind |-> "NoBuffer", note |-> midi]
MissingBuffer(key) == [kind |-> "MissingBuffer", note |-> key]
ContractViolation == [kind |-> "ContractViolation", note |-> 0]

\* new ToneBufferSource({... fadeOut: this.release ...}); source.start(time, ...)
NewSource(midi, difference, time, rel) ==
    [midi |-> midi, closestNote |-> midi - difference, difference |-> difference,
     fadeOut |-> rel, startTime |-> time, stopTimes |-> <<>>,
     ended |-> FALSE, disposed |-> FALSE]

\* the calls a method makes on its collaborators, in the order it makes them
Event(ev, id, time) == [ev |-> ev, id |-> id, time |-> time]

StopEvents(ids, time) == [j \in 1..Len(ids) |-> Event("stop", ids[j], time)]

\* source.stop(time)
Stop(srcs, id, time) == [srcs EXCEPT ![id].stopTimes = Append(@, time)]

\* Map.has / Map.get with the emptiness test of line 379
HasSources(act, midi) == midi \in DOMAIN act /\ Len(act[midi]) > 0

\* Array.prototype.indexOf, 1-based, 0 for "not found"
IndexOf(seq, x) ==
    IF \E j \in 1..Len(seq) : seq[j] = x
    THEN CHOOSE j \in 1..Len(seq) : seq[j] = x /\ \A k \in 1..(j - 1) : seq[k] # x
    ELSE 0

\* Array.prototype.splice(index, 1)
Splice(seq, idx) == SubSeq(seq, 1, idx - 1) \o SubSeq(seq, idx + 1, Len(seq))

(* ------------------------------ triggerAttack -------------------------- *)
\* body of the forEach callback, lines 331-351; st = [act, keys, srcs, err, log].
\* _findClosest throws when nothing is found; _buffers.get(closestNote)
\* fails on a key the store does not hold.
\* variant of the registration: the source goes under the sample's key
AttackNoteUnderSample(st, bufs, midi, time, rel) ==
    LET r == FindClosest(bufs, midi) IN
    IF ~r.ok THEN [st EXCEPT !.err = NoBuffer(midi)]
    ELSE IF (midi - r.interval) \notin bufs
    THEN [st EXCEPT !.err = MissingBuffer(midi - r.interval)]
    ELSE LET id == Len(st.srcs) + 1
             key == midi - r.interval
             act1 == IF key \in DOMAIN st.act THEN st.act ELSE st.act @@ (key :> <<>>)
         IN [st EXCEPT !.srcs = Append(@, NewSource(midi, r.interval, time, rel)),
                       !.log = Append(@, Event("start", id, time)),
                       !.keys = IF key \in DOMAIN st.act THEN @ ELSE Append(@, key),
                       !.act = [act1 EXCEPT ![key] = Append(@, id)]]

\* variant of the registration: the collection of the key is created
\* before the pitch is resolved
AttackNoteCollectionFirst(st, bufs, midi, time, rel) ==
    LET r == FindClosest(bufs, midi)
        act1 == IF midi \in DOMAIN st.act THEN st.act ELSE st.act @@ (midi :> <<>>)
        keys1 == IF midi \in DOMAIN st.act THEN st.keys ELSE Append(st.keys, midi)
    IN
    IF ~r.ok THEN [st EXCEPT !.err = NoBuffer(midi), !.act = act1, !.keys = keys1]
    ELSE IF (midi - r.interval) \notin bufs
    THEN [st EXCEPT !.err = MissingBuffer(midi - r.interval), !.act = act1,
                    !.keys = keys1]
    ELSE LET id == Len(st.srcs) + 1
         IN [st EXCEPT !.srcs = Append(@, NewSource(midi, r.interval, time, rel)),
                       !.log = Append(@, Event("start", id, time)),
                       !.keys = IF midi \in DOMAIN st.act THEN @ ELSE Append(@, midi),
                       !.act = [act1 EXCEPT ![midi] = Append(@, id)]]

AttackNote(st, bufs, midi, time, rel) ==
    LET r == FindClosest(bufs, midi) IN
    IF ~r.ok THEN [st EXCEPT !.err = NoBuffer(midi)]
    ELSE IF (midi - r.interval) \notin bufs
    THEN [st EXCEPT !.err = MissingBuffer(midi - r.interval)]
    ELSE LET id == Len(st.srcs) + 1
             act1 == IF midi \in DOMAIN st.act THEN st.act ELSE st.act @@ (midi :> <<>>)
         IN [st EXCEPT !.srcs = Append(@, NewSource(midi, r.interval, time, rel)),
                       !.log = Append(@, Event("start", id, time)),
                       !.keys = IF midi \in DOMAIN st.act THEN @ ELSE Append(@, midi),
                       !.act = [act1 EXCEPT ![midi] = Append(@, id)]]

\* notes.forEach: an exception thrown by the callback ends the loop
RECURSIVE AttackLoop(_, _, _, _, _, _)
AttackLoop(st, bufs, notes, i, time, rel) ==
    IF i > Len(notes) \/ st.err.kind # "none" THEN st
    ELSE AttackLoop(AttackNote(st, bufs, notes[i], time, rel), bufs, notes, i + 1, time, rel)

DoTriggerAttack(st, bufs, notes, time, rel) == AttackLoop(st, bufs, notes.v, 1, time, rel)

(* ------------------------------ triggerRelease ------------------------- *)
RECURSIVE StopEach(_, _, _)
StopEach(srcs, ids, time) ==
    IF ids = <<>> THEN srcs ELSE StopEach(Stop(srcs, Head(ids), time), Tail(ids), time)

\* variants of the release: only the first source stopped; collection kept
StopHeadOnly(srcs, ids, time) ==
    IF ids = <<>> THEN srcs ELSE Stop(srcs, Head(ids), time)

ReleaseNoteNoClear(st, midi, time) ==
    IF HasSources(st.act, midi)
    THEN [st EXCEPT !.srcs = StopEach(@, st.act[midi], time),
                    !.log = @ \o StopEvents(st.act[midi], time)]
    ELSE st

ReleaseNoteHeadOnly(st, midi, time) ==
    IF HasSources(st.act, midi)
    THEN [st EXCEPT !.srcs = StopHeadOnly(@, st.act[midi], time),
                    !.log = Append(@, Event("stop", Head(st.act[midi]), time)),
                    !.act[midi] = <<>>]
    ELSE st

\* variant of the release: the key's collection is set to [] even when the
\* key has no source
ReleaseNoteAlwaysSet(st, midi, time) ==
    IF HasSources(st.act, midi)
    THEN [st EXCEPT !.srcs = StopEach(@, st.act[midi], time),
                    !.log = @ \o StopEvents(st.act[midi], time),
                    !.act[midi] = <<>>]
    ELSE IF midi \in DOMAIN st.act THEN st
    ELSE [st EXCEPT !.act = @ @@ (midi :> <<>>), !.keys = Append(@, midi)]

\* body of the forEach callback, lines 377-386
ReleaseNote(st, midi, time) ==
    IF HasSources(st.act, midi)
    THEN [st EXCEPT !.srcs = StopEach(@, st.act[midi], time),
                    !.log = @ \o StopEvents(st.act[midi], time),
                    !.act[midi] = <<>>]
    ELSE st

RECURSIVE ReleaseLoop(_, _, _, _)
ReleaseLoop(st, notes, i, time) ==
    IF i > Len(notes) THEN st
    ELSE ReleaseLoop(ReleaseNote(st, notes[i], time), notes, i + 1, time)

DoTriggerRelease(st, notes, time) == ReleaseLoop(st, notes.v, 1, time)

(* -------------------------------- releaseAll --------------------------- *)
\* while (sources.length) { source = sources.shift(); source.stop(t) }
\* variant of the drain: one shift instead of the while loop
DrainOnce(st, midi, time) ==
    IF Len(st.act[midi]) = 0 THEN st
    ELSE [st EXCEPT !.srcs = Stop(@, Head(st.act[midi]), time),
                    !.log = Append(@, Event("stop", Head(st.act[midi]), time)),
                    !.act[midi] = Tail(@)]

RECURSIVE Drain(_, _, _)
Drain(st, midi, time) ==
    IF Len(st.act[midi]) = 0 THEN st
    ELSE Drain([st EXCEPT !.srcs = Stop(@, Head(st.act[midi]), time),
                          !.log = Append(@, Event("stop", Head(st.act[midi]), time)),
                          !.act[midi] = Tail(@)], midi, time)

\* this._activeSources.forEach(sources => ...): the keys in the order of
\* their insertion
RECURSIVE DrainEvery(_, _, _)
DrainEvery(st, keys, time) ==
    IF keys = <<>> THEN st
    ELSE DrainEvery(Drain(st, Head(keys), time), Tail(keys), time)

DoReleaseAll(st, time) == DrainEvery(st, st.keys, time)

(* ---------------------------- triggerAttackRelease --------------------- *)
Min(a, b) == IF a < b THEN a ELSE b

RECURSIVE PairedRelease(_, _, _, _, _)
PairedRelease(st, notes, durs, i, time) ==
    IF i > Len(notes) THEN st
    ELSE PairedRelease(
            DoTriggerRelease(st, Scalar(notes[i]), time + durs[Min(i - 1, Len(durs) - 1) + 1]),
            notes, durs, i + 1, time)

\* variant: with a scalar duration each pitch is attacked and released in turn
RECURSIVE AttackReleaseInTurn(_, _, _, _, _, _, _)
AttackReleaseInTurn(st, bufs, notes, i, d, time, rel) ==
    IF i > Len(notes) \/ st.err.kind # "none" THEN st
    ELSE LET a == AttackNote(st, bufs, notes[i], time, rel)
             b == IF a.err.kind # "none" THEN a ELSE ReleaseNote(a, notes[i], time + d)
         IN AttackReleaseInTurn(b, bufs, notes, i + 1, d, time, rel)

DoTriggerAttackReleaseInTurn(st, bufs, notes, duration, time, rel) ==
    IF duration.arr
    THEN LET a == DoTriggerAttack(st, bufs, notes, time, rel) IN
         IF a.err.kind # "none" THEN a
         ELSE IF ~notes.arr THEN [a EXCEPT !.err = ContractViolation]
         ELSE PairedRelease(a, notes.v, duration.v, 1, time)
    ELSE AttackReleaseInTurn(st, bufs, notes.v, 1, duration.v[1], time, rel)

DoTriggerAttackRelease(st, bufs, notes, duration, time, rel) ==
    LET a == DoTriggerAttack(st, bufs, notes, time, rel) IN
    IF a.err.kind # "none" THEN a
    ELSE IF duration.arr
         THEN IF ~notes.arr THEN [a EXCEPT !.err = ContractViolation]
              ELSE PairedRelease(a, notes.v, duration.v, 1, time)
         ELSE DoTriggerRelease(a, notes, time + duration.v[1])

(* ----------------------------- onended callback ------------------------ *)
\* variant of the callback: splices index 0 instead of indexOf(source)
EndedCallbackSpliceFirst(act, midi, id) ==
    IF midi \in DOMAIN act /\ Len(act[midi]) > 0
    THEN [act EXCEPT ![midi] = Tail(@)]
    ELSE act

\* variant of the callback: splice without the test for "not found";
\* splice(-1, 1) removes the last element
EndedCallbackUnguarded(act, midi, id) ==
    IF midi \in DOMAIN act
    THEN LET index == IndexOf(act[midi], id)
         IN IF index # 0 THEN [act EXCEPT ![midi] = Splice(@, index)]
            ELSE [act EXCEPT ![midi] = Splice(@, Len(@))]
    ELSE act

EndedCallback(act, midi, id) ==
    IF midi \in DOMAIN act
    THEN LET index == IndexOf(act[midi], id)
         IN IF index # 0 THEN [act EXCEPT ![midi] = Splice(@, index)] ELSE act
    ELSE act

(* --------------------------------- dispose ----------------------------- *)
EmptyMap == [k \in {} |-> <<>>]

\* sources.forEach(source => source.dispose())
RECURSIVE DisposeEach(_, _)
DisposeEach(st, ids) ==
    IF ids = <<>> THEN st
    ELSE DisposeEach([st EXCEPT !.srcs[Head(ids)].disposed = TRUE,
                                !.log = Append(@, Event("source.dispose", Head(ids), 0))],
                     Tail(ids))

\* this._activeSources.forEach(sources => ...): the keys in the order of
\* their insertion
RECURSIVE DisposeEvery(_, _)
DisposeEvery(st, keys) ==
    IF keys = <<>> THEN st
    ELSE DisposeEvery(DisposeEach(st, st.act[Head(keys)]), Tail(keys))

\* variant: the map is cleared before its sources are walked
DoDisposeClearFirst(st) ==
    LET a == [st EXCEPT !.log = @ \o <<Event("super.dispose", 0, 0),
                                       Event("buffers.dispose", 0, 0),
                                       Event("activeSources.clear", 0, 0)>>,
                        !.act = EmptyMap,
                        !.keys = <<>>]
    IN DisposeEvery(a, a.keys)

\* lines 483-488, in their order
DoDispose(st) ==
    LET a == [st EXCEPT !.log = @ \o <<Event("super.dispose", 0, 0),
                                       Event("buffers.dispose", 0, 0)>>]
        b == DisposeEvery(a, a.keys)
    IN [b EXCEPT !.log = Append(@, Event("activeSources.clear", 0, 0)),
                 !.act = EmptyMap,
                 !.keys = <<>>]

(* ------------------------ feedback comb filter ------------------------- *)
\* the processor after its constructor (line 108): a zeroed Float32Array of
\* sampleRate elements.  delayTime (in units of 1 / DelayTimeDen seconds)
\* and feedback are the values of the node's two parameters; currentFrame is
\* the frame counter of the audio thread at the next call of process.
NewProcessor(frame, delayTime, feedback) ==
    [delayBuffer |-> [i \in 0..(sampleRate - 1) |-> 0],
     currentFrame |-> frame,
     delayTime |-> delayTime,
     feedback |-> feedback,
     inputs |-> <<>>,
     outputs |-> <<>>,
     returns |-> <<>>,
     touched |-> {}]

\* getParameter (lines 111-117); index counts from 0
GetParameter(name, index, parameters) ==
    IF Len(parameters[name]) > 1 THEN parameters[name][index + 1]
    ELSE parameters[name][1]

\* Math.floor(delayTime * sampleRate)
DelaySamples(delayTime) == (delayTime * sampleRate) \div DelayTimeDen

CurrentIndex(currentFrame, index, delayLength) == (currentFrame + index) % delayLength

\* variant of the write position: no wrap at the end of the buffer
DelayedIndexUnwrapped(currentFrame, index, delaySamples, delayLength) ==
    currentFrame + index + delaySamples

DelayedIndex(currentFrame, index, delaySamples, delayLength) ==
    (currentFrame + index + delaySamples) % delayLength

\* an element store of a typed array; a store outside the array is dropped
Write(delayBuffer, i, v) ==
    IF i \in DOMAIN delayBuffer THEN [delayBuffer EXCEPT ![i] = v] ELSE delayBuffer

\* body of the inner forEach (lines 126-139); s = [delayBuffer, output, touched]
ProcessSample(s, value, channelNum, index, currentFrame, parameters) ==
    LET delayLength == Cardinality(DOMAIN s.delayBuffer)
        delayTime == GetParameter("delayTime", index, parameters)
        feedback == GetParameter("feedback", index, parameters)
        delaySamples == DelaySamples(delayTime)
        currentIndex == CurrentIndex(currentFrame, index, delayLength)
        delayedIndex == DelayedIndex(currentFrame, index, delaySamples, delayLength)
        currentValue == s.delayBuffer[currentIndex]
    IN [s EXCEPT !.delayBuffer = Write(@, delayedIndex, value + currentValue * feedback),
                 !.output[channelNum][index + 1] =
                     IF delaySamples > 0 THEN currentValue ELSE value,
                 !.touched = @ \cup {currentIndex, delayedIndex}]

\* inputChannel.forEach
RECURSIVE ForEachSample(_, _, _, _, _, _)
ForEachSample(s, inputChannel, channelNum, index, currentFrame, parameters) ==
    IF index >= Len(inputChannel) THEN s
    ELSE ForEachSample(ProcessSample(s, inputChannel[index + 1], channelNum, index,
                                     currentFrame, parameters),
                       inputChannel, channelNum, index + 1, currentFrame, parameters)

\* input.forEach
RECURSIVE ForEachChannel(_, _, _, _, _)
ForEachChannel(s, input, channelNum, currentFrame, parameters) ==
    IF channelNum > Len(input) THEN s
    ELSE ForEachChannel(ForEachSample(s, input[channelNum], channelNum, 0,
                                      currentFrame, parameters),
                        input, channelNum + 1, currentFrame, parameters)

\* process (lines 119-145) on one block: input is inputs[0], a sequence of
\* channels; the output block starts zeroed with one channel per input
\* channel; the call returns true; the audio thread then advances
\* currentFrame by the block size
DoProcess(c, input, parameters) ==
    LET s0 == [delayBuffer |-> c.delayBuffer,
               output |-> [ch \in 1..Len(input) |-> [i \in 1..BlockSize |-> 0]],
               touched |-> c.touched]
        s == ForEachChannel(s0, input, 1, c.currentFrame, parameters)
    IN [c EXCEPT !.delayBuffer = s.delayBuffer,
                 !.touched = s.touched,
                 !.inputs = Append(@, input),
                 !.outputs = Append(@, s.output),
                 !.returns = Append(@, TRUE),
                 !.currentFrame = @ + BlockSize]

(* --------------------------------- state ------------------------------- *)
Here ==
    [act |-> activeSources, keys |-> keyOrder, srcs |-> sources, err |-> NoError,
     log |-> <<>>]

Commit(st, op) ==
    /\ activeSources' = st.act
    /\ keyOrder' = st.keys
    /\ sources' = st.srcs
    /\ lastCall' = [op |-> op, err |-> st.err]

Init ==
    /\ buffers = MainSamples
    /\ activeSources = EmptyMap
    /\ keyOrder = <<>>
    /\ sources = <<>>
    /\ release = 1
    /\ wasDisposed = FALSE
    /\ lastCall = [op |-> "new", err |-> NoError]
    /\ comb = NewProcessor(0, 0, 0)

TriggerAttack(notes, time) ==
    /\ Commit(DoTriggerAttack(Here, buffers, notes, time, release), "triggerAttack")
    /\ UNCHANGED <<buffers, release, wasDisposed, comb>>

TriggerRelease(notes, time) ==
    /\ Commit(DoTriggerRelease(Here, notes, time), "triggerRelease")
    /\ UNCHANGED <<buffers, release, wasDisposed, comb>>

ReleaseAll(time) ==
    /\ Commit(DoReleaseAll(Here, time), "releaseAll")
    /\ UNCHANGED <<buffers, release, wasDisposed, comb>>

TriggerAttackRelease(notes, duration, time) ==
    /\ Commit(DoTriggerAttackRelease(Here, buffers, notes, duration, time, release),
              "triggerAttackRelease")
    /\ UNCHANGED <<buffers, release, wasDisposed, comb>>

\* the onended callback of source id (lines 354-362), run once per source;
\* it may also run after the source or the sampler was disposed
OnEnded(id) ==
    /\ ~sources[id].ended
    /\ sources' = [sources EXCEPT ![id].ended = TRUE]
    /\ activeSources' = EndedCallback(activeSources, sources[id].midi, id)
    /\ UNCHANGED <<buffers, keyOrder, release, wasDisposed, lastCall, comb>>

\* add(note, url) with a MIDI number (lines 459-470): this._buffers.add
\* puts the buffer under the key, also when the store was disposed before
Add(note) ==
    /\ buffers' = buffers \cup {note}
    /\ lastCall' = [op |-> "add", err |-> NoError]
    /\ UNCHANGED <<activeSources, keyOrder, sources, release, wasDisposed, comb>>

\* variant of the setter: the new value reaches the sources already made
SetReleaseRetroactive(r) ==
    /\ release # r
    /\ release' = r
    /\ sources' = [i \in 1..Len(sources) |-> [sources[i] EXCEPT !.fadeOut = r]]
    /\ UNCHANGED <<buffers, activeSources, keyOrder, wasDisposed, lastCall, comb>>

\* sampler.release = r
SetRelease(r) ==
    /\ release # r
    /\ release' = r
    /\ UNCHANGED <<buffers, activeSources, keyOrder, sources, wasDisposed, lastCall, comb>>

\* super.dispose(); this._buffers.dispose(), after which the store holds no
\* key; every source of every collection is disposed;
\* this._activeSources.clear()
Dispose ==
    /\ wasDisposed' = TRUE
    /\ buffers' = {}
    /\ Commit(DoDispose(Here), "dispose")
    /\ UNCHANGED <<release, comb>>

\* one call of process by the audio thread
Process(input, parameters) ==
    /\ comb' = DoProcess(comb, input, parameters)
    /\ UNCHANGED <<buffers, activeSources, keyOrder, sources, release, wasDisposed, lastCall>>

\* a run creates at most cap sources
Room(notes, cap) == Len(sources) + Len(notes.v) <= cap

\* every public operation of the sampler; attacks at time 0, releases later
Next ==
    \/ \E notes \in NoteArgsOver(PoolNotes) :
          Room(notes, MaxVoices) /\ TriggerAttack(notes, 0)
    \/ \E notes \in NoteArgsOver(PoolNotes), time \in ReleaseTimes :
          TriggerRelease(notes, time)
    \/ \E time \in ReleaseTimes : ReleaseAll(time)
    \/ \E notes \in NoteArgsOver(PoolNotes), duration \in DurArgs :
          Room(notes, MaxVoices) /\ TriggerAttackRelease(notes, duration, 0)
    \/ \E id \in 1..Len(sources) : OnEnded(id)
    \/ \E note \in AddNotes : Add(note)
    \/ \E r \in ReleaseValues : SetRelease(r)
    \/ Dispose

Spec == Init /\ [][Next]_vars

(* ------------------- resolution over many sample stores ---------------- *)
InitResolve ==
    /\ buffers \in SampleSets
    /\ activeSources = EmptyMap
    /\ keyOrder = <<>>
    /\ sources = <<>>
    /\ release = 1
    /\ wasDisposed = FALSE
    /\ lastCall = [op |-> "new", err |-> NoError]
    /\ comb = NewProcessor(0, 0, 0)

NextResolve ==
    \/ \E K \in Notes : Room(Scalar(K), MaxVoices) /\ TriggerAttack(Scalar(K), 0)
    \/ \E id \in 1..Len(sources) : OnEnded(id)

SpecResolve == InitResolve /\ [][NextResolve]_vars

(* ---------- attack, release and end of playback, interleaved ----------- *)
NextPool ==
    \/ \E notes \in NoteArgsOver(PoolNotes) :
          Room(notes, MaxVoices) /\ TriggerAttack(notes, 0)
    \/ \E notes \in NoteArgsOver(PoolNotes), time \in ReleaseTimes :
          TriggerRelease(notes, time)
    \/ \E time \in ReleaseTimes : ReleaseAll(time)
    \/ \E id \in 1..Len(sources) : OnEnded(id)

SpecPool == Init /\ [][NextPool]_vars

(* ------------------- three and more keys sounding at once -------------- *)
NextReleaseAll ==
    \/ \E K \in AllNotes : Room(Scalar(K), MaxVoicesAll) /\ TriggerAttack(Scalar(K), 0)
    \/ \E time \in ReleaseTimes : ReleaseAll(time)
    \/ \E id \in 1..Len(sources) : OnEnded(id)

SpecReleaseAll == Init /\ [][NextReleaseAll]_vars

(* ------------- attack-and-release calls with one duration ------------- *)
NextAttackRelease ==
    \/ \E notes \in NoteArgsOver(PoolNotes), d \in Durations, time \in Times :
          Room(notes, MaxVoices) /\ TriggerAttackRelease(notes, Scalar(d), time)
    \/ \E K \in PoolNotes, time \in Times :
          Room(Scalar(K), MaxVoices) /\ TriggerAttack(Scalar(K), time)

SpecAttackRelease == Init /\ [][NextAttackRelease]_vars

(* ------------------------- teardown of a sampler ----------------------- *)
NextDispose ==
    \/ \E notes \in NoteArgsOver(PoolNotes) :
          Room(notes, MaxVoices) /\ TriggerAttack(notes, 0)
    \/ \E K \in PoolNotes, time \in ReleaseTimes : TriggerRelease(Scalar(K), time)
    \/ \E time \in ReleaseTimes : ReleaseAll(time)
    \/ \E id \in 1..Len(sources) : OnEnded(id)
    \/ Dispose

SpecDispose == Init /\ [][NextDispose]_vars

(* ------------- the release parameter changed between calls ------------ *)
FadeNotes == {60, 62}

NextFade ==
    \/ \E K \in FadeNotes : Room(Scalar(K), MaxVoices) /\ TriggerAttack(Scalar(K), 0)
    \/ \E r \in ReleaseValues : SetRelease(r)
    \/ \E K \in FadeNotes, time \in ReleaseTimes : TriggerRelease(Scalar(K), time)
    \/ \E time \in ReleaseTimes : ReleaseAll(time)
    \/ \E id \in 1..Len(sources) : OnEnded(id)

SpecFade == Init /\ [][NextFade]_vars

(* ----------------- one channel through the comb filter ---------------- *)
\* input blocks: silence, a unit impulse at each position, a constant block
Blocks ==
    {[i \in 1..BlockSize |-> IF i = j THEN 1 ELSE 0] : j \in 0..BlockSize}
       \cup {[i \in 1..BlockSize |-> 1]}
DelayTimes == 0..DelayTimeDen
Feedbacks == {0, 1, 2}
StartFrames == {0, BlockSize}
\* a parameter arrives as one value per block or one value per frame
Rates == {"k", "a"}
Param(v, rate) == IF rate = "a" THEN [i \in 1..BlockSize |-> v] ELSE <<v>>

InitComb ==
    /\ buffers = MainSamples
    /\ activeSources = EmptyMap
    /\ keyOrder = <<>>
    /\ sources = <<>>
    /\ release = 1
    /\ wasDisposed = FALSE
    /\ lastCall = [op |-> "new", err |-> NoError]
    /\ \E frame \in StartFrames, delayTime \in DelayTimes, feedback \in Feedbacks :
          comb = NewProcessor(frame, delayTime, feedback)

NextComb ==
    \E inputChannel \in Blocks, rd, rf \in Rates :
       /\ Len(comb.inputs) < MaxBlocks
       /\ Process(<<inputChannel>>,
                  [delayTime |-> Param(comb.delayTime, rd),
                   feedback |-> Param(comb.feedback, rf)])

SpecComb == InitComb /\ [][NextComb]_vars

(* ----------------- two channels through the comb filter --------------- *)
\* the blocks of the second channel: silence and a constant block
OtherBlocks == {[i \in 1..BlockSize |-> 0], [i \in 1..BlockSize |-> 1]}

NextCombStereo ==
    \E first \in Blocks, second \in OtherBlocks, rd, rf \in Rates :
       /\ Len(comb.inputs) < MaxStereoBlocks
       /\ Process(<<first, second>>,
                  [delayTime |-> Param(comb.delayTime, rd),
                   feedback |-> Param(comb.feedback, rf)])

SpecCombStereo == InitComb /\ [][NextCombStereo]_vars

\* consecutive calls of process on the blocks inputs[i], inputs[i + 1], ...
\* with the parameters of processor p
RECURSIVE Run(_, _, _)
Run(p, inputs, i) ==
    IF i > Len(inputs) THEN p
    ELSE Run(DoProcess(p, inputs[i],
                       [delayTime |-> Param(p.delayTime, "k"),
                        feedback |-> Param(p.feedback, "k")]),
             inputs, i + 1)

\* a second processor, made like c and started at the same frame, run on
\* other blocks
Replay(c, inputs) ==
    Run(NewProcessor(c.currentFrame - BlockSize * Len(c.inputs), c.delayTime, c.feedback),
        inputs, 1)

(* ------------------------------ properties ----------------------------- *)
Range(seq) == {seq[j] : j \in 1..Len(seq)}

Ids == 1..Len(sources)

\* the collection of key k, empty when the map has no such key
Pool(act, k) == IF k \in DOMAIN act THEN act[k] ELSE <<>>

InSomePool(act, id) == \E k \in DOMAIN act : id \in Range(act[k])

WithinRadius(bufs, K) == \E S \in bufs : Abs(K - S) < MAX_INTERVAL

\* S is a stored key nearest to K, and the key above K when two are nearest
NearestPreferAbove(bufs, K, S) ==
    /\ S \in bufs
    /\ \A T \in bufs : Abs(K - S) <= Abs(K - T)
    /\ (K + Abs(K - S)) \in bufs => S = K + Abs(K - S)

\* C1: whenever some stored key lies within the searched radius of a
\* requested key K, _findClosest resolves K to a stored key at minimal
\* distance from K, and to the key above K when a key above and a key below
\* are equally near; every source triggerAttack created plays such a key.
C1_ResolvesToNearest ==
    /\ \A K \in Notes :
          WithinRadius(buffers, K) =>
             /\ FindClosest(buffers, K).ok
             /\ NearestPreferAbove(buffers, K, K - FindClosest(buffers, K).interval)
    /\ \A i \in Ids :
          NearestPreferAbove(buffers, sources[i].midi, sources[i].closestNote)

C1_Witness ==
    /\ buffers = {60, 64}
    /\ lastCall.op = "triggerAttack"
    /\ \E i \in Ids : sources[i].midi = 62 /\ sources[i].closestNote = 64

\* C2 (as claimed): resolution fails exactly when the nearest stored key is
\* farther than 96 semitones away: a call that throws the no-buffer error had
\* no stored key within 96, and a key with a stored key at distance 96 or
\* less resolves.
C2_FailsIffBeyond96 ==
    /\ (lastCall.err.kind = "NoBuffer" /\ buffers # {}) =>
          \A S \in buffers : Abs(lastCall.err.note - S) > MAX_INTERVAL
    /\ \A i \in Ids : Abs(sources[i].difference) <= MAX_INTERVAL

\* C2 (amended): resolution fails exactly when no stored key is within 95
\* semitones: a nearest stored key at distance 95 resolves, one at distance
\* 96 (or farther, or an empty store) throws the no-buffer error.
C2_FailsIffBeyond95 ==
    /\ lastCall.err.kind = "NoBuffer" =>
          \A S \in buffers : Abs(lastCall.err.note - S) >= MAX_INTERVAL
    /\ \A K \in Notes :
          FindClosest(buffers, K).ok <=> \E S \in buffers : Abs(K - S) <= MAX_INTERVAL - 1
    /\ \A i \in Ids : Abs(sources[i].difference) <= MAX_INTERVAL - 1

C2_Witness ==
    /\ lastCall.op = "triggerAttack"
    /\ lastCall.err.kind = "NoBuffer"
    /\ \E S \in buffers : Abs(lastCall.err.note - S) = MAX_INTERVAL
    /\ \E i \in Ids : Abs(sources[i].difference) = MAX_INTERVAL - 1

\* C3: when triggerRelease(X, t) returns, the collection of key X is empty,
\* whatever number of sources was registered there, and none of the sources
\* it stopped has ended by then (no onended callback is needed to empty it).
C3_ReleaseEmptiesPool ==
    [][\A X \in PoolNotes, t \in ReleaseTimes :
          TriggerRelease(Scalar(X), t) =>
             /\ Pool(activeSources', X) = <<>>
             /\ \A i \in Range(Pool(activeSources, X)) : ~sources'[i].ended]_vars

C3_Witness ==
    /\ lastCall.op = "triggerRelease"
    /\ \E i, j \in Ids :
          /\ i # j
          /\ sources[i].midi = sources[j].midi
          /\ sources[i].startTime = 0 /\ sources[i].stopTimes = <<1>>
          /\ sources[j].startTime = 0 /\ sources[j].stopTimes = <<1>>
          /\ ~sources[i].ended /\ ~sources[j].ended
          /\ Pool(activeSources, sources[i].midi) = <<>>

\* C4: triggerRelease(X, t) sends one stop at time t to every source
\* registered under X at the call and to no other source, and leaves the
\* collections of all other keys as they were.
C4_ReleaseStopsExactlyKey ==
    [][\A X \in PoolNotes, t \in ReleaseTimes :
          TriggerRelease(Scalar(X), t) =>
             /\ Len(sources') = Len(sources)
             /\ \A i \in Ids :
                   sources'[i] = IF i \in Range(Pool(activeSources, X))
                                 THEN [sources[i] EXCEPT !.stopTimes = Append(@, t)]
                                 ELSE sources[i]
             /\ DOMAIN activeSources' = DOMAIN activeSources
             /\ \A k \in DOMAIN activeSources \ {X} :
                   activeSources'[k] = activeSources[k]]_vars

C4_Witness ==
    /\ lastCall.op = "triggerRelease"
    /\ \E i, j \in Ids :
          /\ sources[i].midi # sources[j].midi
          /\ sources[i].stopTimes = <<1>>
          /\ ~InSomePool(activeSources, i)
          /\ sources[j].stopTimes = <<>>
          /\ j \in Range(Pool(activeSources, sources[j].midi))

\* C5: when releaseAll(t) returns, every collection is empty and every
\* source that was registered under any key has received one stop at t; no
\* other source has received a stop.
C5_ReleaseAllDrains ==
    [][\A t \in ReleaseTimes :
          ReleaseAll(t) =>
             /\ \A k \in DOMAIN activeSources' : activeSources'[k] = <<>>
             /\ Len(sources') = Len(sources)
             /\ \A i \in Ids :
                   sources'[i] = IF InSomePool(activeSources, i)
                                 THEN [sources[i] EXCEPT !.stopTimes = Append(@, t)]
                                 ELSE sources[i]]_vars

C5_Witness ==
    /\ lastCall.op = "releaseAll"
    /\ Len(sources) = 3
    /\ Cardinality({sources[i].midi : i \in Ids}) = 3
    /\ \A i \in Ids : sources[i].stopTimes = <<1>> /\ ~sources[i].ended
    /\ \A k \in DOMAIN activeSources : activeSources[k] = <<>>

\* C6 (as claimed): in triggerAttack(notes, t) every pitch of notes that
\* resolves gets a source created and registered under it, also when another
\* pitch of the same call fails to resolve, and that failure is reported.
C6_SiblingsUnaffected ==
    [][\A notes \in NoteArgs, t \in Times :
          TriggerAttack(notes, t) =>
             /\ \A K \in Range(notes.v) :
                   FindClosest(buffers, K).ok =>
                      \E i \in (Len(sources) + 1)..Len(sources') :
                         /\ sources'[i].midi = K
                         /\ i \in Range(Pool(activeSources', K))
             /\ (\E K \in Range(notes.v) : ~FindClosest(buffers, K).ok) =>
                   lastCall'.err.kind = "NoBuffer"]_vars

\* C7 (as claimed): triggerAttackRelease with a scalar pitch and an array of
\* durations fails, and when it has failed no source has been created and
\* the collections are as they were before the call.
C7_FailsBeforeAnyVoice ==
    [][\A X \in Notes, duration \in DurArgs, t \in Times :
          (duration.arr /\ TriggerAttackRelease(Scalar(X), duration, t)) =>
             /\ lastCall'.err.kind # "none"
             /\ sources' = sources
             /\ activeSources' = activeSources]_vars

TriggerOps == {"triggerAttack", "triggerRelease", "releaseAll", "triggerAttackRelease"}

\* C8 (as claimed): a trigger operation called after dispose() raises the
\* use-after-dispose error and leaves the collections empty.
C8_UseAfterDispose ==
    (wasDisposed /\ lastCall.op \in TriggerOps) =>
       /\ lastCall.err.kind = "UseAfterDispose"
       /\ \A k \in DOMAIN activeSources : activeSources[k] = <<>>

\* C9 (as claimed): when dispose() returns, every source the sampler created
\* has ended or has been disposed, the released ones included.
C9_NoSourceSurvivesDispose ==
    lastCall.op = "dispose" =>
       \A i \in Ids : sources[i].ended \/ sources[i].disposed

\* C10: no source whose onended callback has run is in any collection.
C10_EndedNotInPool ==
    \A k \in DOMAIN activeSources :
       \A i \in Range(activeSources[k]) : ~sources[i].ended

C10_Witness ==
    \E i, j \in Ids :
       /\ i < j
       /\ sources[i].midi = sources[j].midi
       /\ sources[j].ended
       /\ ~sources[i].ended
       /\ activeSources[sources[i].midi] = <<i>>

\* C11: triggerAttack(K) registers the new source under the requested key K
\* and, when the resolved sample key S differs from K, not under S;
\* triggerRelease(K) sends a stop to every source registered under K, and
\* triggerRelease(S) leaves a source requested as K # S without a stop and
\* in its collection.
C11_RegisteredUnderRequestedKey ==
    [][\A K \in PoolNotes :
          /\ (TriggerAttack(Scalar(K), 0) /\ FindClosest(buffers, K).ok) =>
                LET S == K - FindClosest(buffers, K).interval
                    id == Len(sources) + 1
                IN /\ Len(sources') = id
                   /\ sources'[id].midi = K
                   /\ sources'[id].closestNote = S
                   /\ id \in Range(Pool(activeSources', K))
                   /\ S # K => id \notin Range(Pool(activeSources', S))
          /\ \A t \in ReleaseTimes :
                TriggerRelease(Scalar(K), t) =>
                   \A i \in Ids :
                      /\ (sources[i].midi = K /\ InSomePool(activeSources, i)) =>
                            sources'[i].stopTimes = Append(sources[i].stopTimes, t)
                      /\ (sources[i].closestNote = K /\ sources[i].midi # K) =>
                            /\ sources'[i] = sources[i]
                            /\ InSomePool(activeSources', i) = InSomePool(activeSources, i)]_vars

C11_Witness ==
    /\ lastCall.op = "triggerRelease"
    /\ \E i, j \in Ids :
          /\ sources[i].midi = 62 /\ sources[i].closestNote = 60
          /\ sources[i].stopTimes = <<>>
          /\ i \in Range(Pool(activeSources, 62))
          /\ i \notin Range(Pool(activeSources, 60))
          /\ sources[j].midi = 60 /\ sources[j].stopTimes = <<1>>

\* C12: triggerRelease(X, t) for a key X with no registered source (never
\* attacked, already released or already ended) raises no error, sends no
\* stop and leaves the map of collections as it was.
C12_ReleaseOfSilentKeyIsNoOp ==
    [][\A X \in PoolNotes, t \in ReleaseTimes :
          (TriggerRelease(Scalar(X), t) /\ Pool(activeSources, X) = <<>>) =>
             /\ sources' = sources
             /\ activeSources' = activeSources
             /\ lastCall'.err = NoError]_vars

C12_Witness ==
    /\ lastCall.op = "triggerRelease"
    /\ Len(sources) = 2
    /\ \A i \in Ids : sources[i].stopTimes = <<>>
    /\ \E i \in Ids : sources[i].ended
    /\ \E i \in Ids : InSomePool(activeSources, i)

\* C13 (as claimed): in triggerAttackRelease(pitches, durations, time) with
\* two arrays, the source started for pitches[i] receives its one stop at
\* time + durations[min(i, len(durations) - 1)], also when a pitch occurs
\* more than once in pitches.
C13_PositionalDurations ==
    [][\A notes \in NoteArgs, duration \in DurArgs, t \in Times :
          (/\ notes.arr
           /\ duration.arr
           /\ TriggerAttackRelease(notes, duration, t)
           /\ lastCall'.err = NoError) =>
             \A i \in 1..Len(notes.v) :
                sources'[Len(sources) + i].stopTimes =
                   <<t + duration.v[Min(i, Len(duration.v))]>>]_vars

\* the pitches of the sources a call created, in the order of creation
NewNotes == [i \in 1..(Len(sources') - Len(sources)) |-> sources'[Len(sources) + i].midi]

StartsBeforeStops(log) ==
    \A a, b \in 1..Len(log) : (log[a].ev = "start" /\ log[b].ev = "stop") => a < b

\* C14: triggerAttackRelease(pitches, d, time) with an array of n >= 1
\* pitches that all resolve and a scalar duration d creates n sources, one
\* per pitch in order, each started at time and each with exactly one stop,
\* at time + d; every start is issued before the first stop.
C14_ScalarDurationBroadcast ==
    [][\A d \in Durations, t \in Times :
          (/\ Len(sources') > Len(sources)
           /\ TriggerAttackRelease(Array(NewNotes), Scalar(d), t)
           /\ lastCall'.err = NoError) =>
             LET log == DoTriggerAttackRelease(Here, buffers, Array(NewNotes),
                                               Scalar(d), t, release).log
                 new == (Len(sources) + 1)..Len(sources')
             IN /\ \A i \in new : /\ sources'[i].startTime = t
                                  /\ sources'[i].stopTimes = <<t + d>>
                /\ \A i \in new :
                      /\ Cardinality({a \in 1..Len(log) : log[a] = Event("start", i, t)}) = 1
                      /\ Cardinality({a \in 1..Len(log) : log[a] = Event("stop", i, t + d)}) = 1
                /\ StartsBeforeStops(log)]_vars

C14_Witness ==
    /\ lastCall = [op |-> "triggerAttackRelease", err |-> NoError]
    /\ Len(sources) = 2
    /\ sources[1].midi = 60 /\ sources[2].midi = 60
    /\ \A i \in Ids : sources[i].startTime = 1 /\ sources[i].stopTimes = <<3>>

\* C15: dispose() first releases the buffer store, then disposes every
\* source registered in every collection, then clears the map; afterwards
\* the map has no key, the store holds no sample and exactly the sources
\* that were registered have been disposed by the call.
C15_DisposeOrder ==
    [][Dispose =>
          LET log == DoDispose(Here).log
              At(ev) == {a \in 1..Len(log) : log[a].ev = ev}
          IN /\ Cardinality(At("buffers.dispose")) = 1
             /\ Cardinality(At("activeSources.clear")) = 1
             /\ {log[a].id : a \in At("source.dispose")} =
                   {i \in Ids : InSomePool(activeSources, i)}
             /\ \A b \in At("buffers.dispose"), a \in At("source.dispose"),
                   c \in At("activeSources.clear") : b < a /\ a < c
             /\ \A b \in At("buffers.dispose"), c \in At("activeSources.clear") : b < c
             /\ \A i \in Ids :
                   sources'[i].disposed =
                      (sources[i].disposed \/ InSomePool(activeSources, i))
             /\ DOMAIN activeSources' = {}
             /\ buffers' = {}]_vars

C15_Witness ==
    /\ lastCall.op = "dispose"
    /\ DOMAIN activeSources = {}
    /\ Len(sources) = 2
    /\ sources[1].midi # sources[2].midi
    /\ \A i \in Ids : sources[i].disposed /\ ~sources[i].ended

FirstFailing(notes) ==
    CHOOSE j \in 1..Len(notes) :
       /\ ~FindClosest(buffers, notes[j]).ok
       /\ \A k \in 1..(j - 1) : FindClosest(buffers, notes[k]).ok

\* C16: when triggerAttack fails on a pitch K that does not resolve, the
\* call has created sources for the pitches before K only, none for K, and
\* the map holds for K what it held before the call (no key, or the same
\* collection).
C16_FailingPitchLeavesNoVoice ==
    [][\A notes \in NoteArgsOver(PoolNotes) :
          (/\ lastCall'.op = "triggerAttack"
           /\ lastCall'.err.kind = "NoBuffer"
           /\ TriggerAttack(notes, 0)) =>
             LET K == lastCall'.err.note
                 j == FirstFailing(notes.v)
             IN /\ notes.v[j] = K
                /\ Len(sources') = Len(sources) + j - 1
                /\ \A i \in 1..(j - 1) : sources'[Len(sources) + i].midi = notes.v[i]
                /\ \A i \in (Len(sources) + 1)..Len(sources') : sources'[i].midi # K
                /\ (K \in DOMAIN activeSources') = (K \in DOMAIN activeSources)
                /\ Pool(activeSources', K) = Pool(activeSources, K)]_vars

C16_Witness ==
    /\ lastCall = [op |-> "triggerAttack", err |-> NoBuffer(156)]
    /\ Len(sources) = 1
    /\ sources[1].midi = 60
    /\ DOMAIN activeSources = {60}
    /\ activeSources[60] = <<1>>

\* C17: the fadeOut of a source is the value the release parameter had when
\* triggerAttack created it; no later step (a change of the parameter, a
\* release, releaseAll, the end of playback) changes it.
C17_FadeOutFixedAtCreation ==
    [][/\ Len(sources') >= Len(sources)
       /\ \A i \in Ids : sources'[i].fadeOut = sources[i].fadeOut
       /\ \A i \in (Len(sources) + 1)..Len(sources') : sources'[i].fadeOut = release]_vars

C17_Witness ==
    /\ lastCall.op \in {"triggerRelease", "releaseAll"}
    /\ Len(sources) = 2
    /\ sources[1].fadeOut = 1 /\ sources[2].fadeOut = 2
    /\ sources[1].midi = sources[2].midi
    /\ sources[1].stopTimes = <<1>> /\ sources[2].stopTimes = <<1>>
    /\ release = 1

Without(seq, id) == SelectSeq(seq, LAMBDA x : x # id)

\* C18: the onended callback of a source removes that source, and nothing
\* else, from the collection of the source's requested key, leaves the map
\* as it is when the source is not there (after triggerRelease, releaseAll
\* or dispose, which leaves no key at all), and raises no error;
\* triggerRelease and releaseAll raise no error either, whatever callbacks
\* came before.
C18_EndedRemovesOnlyItself ==
    [][/\ \A id \in Ids :
             OnEnded(id) =>
                /\ DOMAIN activeSources' = DOMAIN activeSources
                /\ keyOrder' = keyOrder
                /\ \A k \in DOMAIN activeSources :
                      activeSources'[k] =
                         IF k = sources[id].midi THEN Without(activeSources[k], id)
                         ELSE activeSources[k]
                /\ lastCall' = lastCall
       /\ lastCall'.op \in {"triggerRelease", "releaseAll"} => lastCall'.err = NoError]_vars

\* attack(60), release(60), attack(60) again: the callback of the released
\* first source has run and the second source stayed registered until
\* dispose() disposed it; its own callback has run after dispose(), on the
\* cleared map (a source leaves the map when its callback runs, and
\* dispose() disposes only sources in the map, so a source both disposed and
\* ended has ended after dispose())
C18_Witness ==
    /\ Len(sources) = 2
    /\ sources[1].midi = 60 /\ sources[2].midi = 60
    /\ sources[1].ended /\ sources[1].stopTimes # <<>> /\ ~sources[1].disposed
    /\ sources[2].ended /\ sources[2].stopTimes = <<>> /\ sources[2].disposed
    /\ wasDisposed
    /\ DOMAIN activeSources = {}

\* C19: no call fails on a key missing from the buffer store: for every
\* pitch that resolves, midi - interval is a key of the store, and every
\* source was given the buffer of a key of the store at distance
\* |difference| from its pitch.
C19_GetOnlyExistingKeys ==
    /\ lastCall.err.kind # "MissingBuffer"
    /\ \A K \in Notes :
          LET r == FindClosest(buffers, K)
          IN r.ok => (K - r.interval) \in buffers
    /\ \A i \in Ids :
          /\ sources[i].closestNote \in buffers
          /\ sources[i].closestNote = sources[i].midi - sources[i].difference

C19_Witness ==
    \E i, j \in Ids :
       /\ sources[i].difference < 0 /\ sources[i].closestNote > sources[i].midi
       /\ sources[j].difference > 0 /\ sources[j].closestNote < sources[j].midi

\* the samples of channel ch over all blocks, in order
RECURSIVE Stream(_, _)
Stream(blocks, ch) ==
    IF blocks = <<>> THEN <<>> ELSE blocks[1][ch] \o Stream(Tail(blocks), ch)

\* C20: with one input channel and a constant delay of d samples,
\* 1 <= d <= length of the delay buffer, the output over consecutive blocks
\* is y[n] = x[n - d] + feedback * y[n - d], and 0 for n < d; every index
\* read or written is inside the delay buffer; every call returns true;
\* with d = 0 the output is the input.
C20_CombRecurrence ==
    LET d == DelaySamples(comb.delayTime)
        x == Stream(comb.inputs, 1)
        y == Stream(comb.outputs, 1)
    IN /\ d \in 0..Cardinality(DOMAIN comb.delayBuffer)
       /\ Len(y) = Len(x)
       /\ d >= 1 =>
             \A n \in 1..Len(y) :
                y[n] = IF n <= d THEN 0 ELSE x[n - d] + comb.feedback * y[n - d]
       /\ d = 0 => y = x
       /\ comb.touched \subseteq DOMAIN comb.delayBuffer
       /\ Len(comb.returns) = Len(comb.inputs)
       /\ \A i \in 1..Len(comb.returns) : comb.returns[i] = TRUE

C20_Witness ==
    LET y == Stream(comb.outputs, 1)
    IN /\ DelaySamples(comb.delayTime) = sampleRate
       /\ comb.feedback = 2
       /\ comb.currentFrame > 2 * sampleRate
       /\ Len(y) > 2 * sampleRate
       /\ y[2 * sampleRate + 1] = 3

\* the blocks of a run with the channel at position ch replaced by alt
WithChannel(inputs, ch, alt) ==
    [b \in 1..Len(inputs) |-> [inputs[b] EXCEPT ![ch] = alt[b]]]

\* C21 (as claimed): with a two-channel input, a second run that gives the
\* first channel the same input and the second channel any other input
\* produces the same output on the first channel.
C21_ChannelIndependence ==
    \A alt \in [1..Len(comb.inputs) -> OtherBlocks] :
       (\A b \in 1..Len(comb.inputs) : Len(comb.inputs[b]) = 2) =>
          Stream(Replay(comb, WithChannel(comb.inputs, 2, alt)).outputs, 1) =
             Stream(comb.outputs, 1)

====
